---- MODULE Spec2Model ----
(***************************************************************************)
(* A model of plams' Settings (src/core/settings.py): the automatic        *)
(* multi-level dictionary and the case-insensitive key type ig.            *)
(*                                                                         *)
(* Python objects live in a heap (a sequence of objects, an address is an  *)
(* index), so that sharing between a store and its copies is part of the   *)
(* state.  A dict keeps its items in insertion order, as CPython does.     *)
(* Strings are sequences of code points: lower(), startswith/endswith and  *)
(* the order used by sorted() are computed on them.                        *)
(***************************************************************************)
EXTENDS Integers, Sequences, FiniteSets, TLC

VARIABLES heap, pre, last, env

vars == <<heap, pre, last, env>>

(***************************************************************************)
(* Keys and values                                                         *)
(***************************************************************************)

\* A plain str key, an ig key (class ig(str)) and an int key.
Str(cs) == [t |-> "str", s |-> cs, n |-> 0]
Ig(cs) == [t |-> "ig", s |-> cs, n |-> 0]
IntKey(i) == [t |-> "int", s |-> <<>>, n |-> i]
NoKey == [t |-> "none", s |-> <<>>, n |-> 0]

IsStr(k) == k.t \in {"str", "ig"}

\* Python's == (and hash) on keys: ig('a') == 'a', 1 != '1'.
KeyEq(k1, k2) ==
  IF IsStr(k1) /\ IsStr(k2) THEN k1.s = k2.s
  ELSE k1.t = "int" /\ k2.t = "int" /\ k1.n = k2.n

\* A scalar, a reference to a heap object, and None.
Num(i) == [t |-> "int", n |-> i]
Ref(a) == [t |-> "ref", n |-> a]
None == [t |-> "none", n |-> 0]

\* True and False as a value.
Bool(b) == [t |-> "bool", n |-> IF b THEN 1 ELSE 0]

Item(k, v) == [k |-> k, v |-> v]

\* A heap object: a Settings, a plain dict or a list.  attrs is the
\* instance __dict__ of a Settings (a list's items carry NoKey).
Obj(cls, items) == [cls |-> cls, items |-> items, attrs |-> <<>>]

IsRef(v) == v.t = "ref"
IsSettings(h, v) == v.t = "ref" /\ h[v.n].cls = "Settings"
\* isinstance(v, dict): Settings is a subclass of dict.
IsDict(h, v) == v.t = "ref" /\ h[v.n].cls \in {"Settings", "dict"}
IsList(h, v) == v.t = "ref" /\ h[v.n].cls = "list"

\* Results of an operation: the heap after it, the value returned, and the
\* exception raised ("" when none).
Ok(h, r) == [h |-> h, r |-> r, err |-> ""]
Raise(h, e) == [h |-> h, r |-> None, err |-> e]

Alloc(h, o) == [h |-> Append(h, o), r |-> Ref(Len(h) + 1), err |-> ""]

(***************************************************************************)
(* str methods                                                             *)
(***************************************************************************)

LowerChar(c) == IF c >= 65 /\ c <= 90 THEN c + 32 ELSE c
Lower(cs) == [i \in 1..Len(cs) |-> LowerChar(cs[i])]

RECURSIVE StrOfInt(_)
StrOfInt(i) ==
  IF i < 10 THEN <<48 + i>> ELSE StrOfInt(i \div 10) \o <<48 + (i % 10)>>

\* str(key)
StrOf(k) == IF k.t = "int" THEN StrOfInt(k.n) ELSE k.s

\* name.startswith('__') and name.endswith('__')
IsDunder(cs) ==
  /\ Len(cs) >= 2
  /\ cs[1] = 95 /\ cs[2] = 95
  /\ cs[Len(cs) - 1] = 95 /\ cs[Len(cs)] = 95

\* a < b on str: by code points, a proper prefix first.
RECURSIVE StrLess(_, _)
StrLess(a, b) ==
  IF b = <<>> THEN FALSE
  ELSE IF a = <<>> THEN TRUE
  ELSE IF a[1] # b[1] THEN a[1] < b[1]
  ELSE StrLess(Tail(a), Tail(b))

(***************************************************************************)
(* dict primitives (insertion ordered)                                     *)
(***************************************************************************)

\* The position of key k in items, 0 when absent.
RECURSIVE DictFindFrom(_, _, _)
DictFindFrom(items, k, i) ==
  IF i > Len(items) THEN 0
  ELSE IF KeyEq(items[i].k, k) THEN i
  ELSE DictFindFrom(items, k, i + 1)

DictFind(items, k) == DictFindFrom(items, k, 1)

DictHas(items, k) == DictFind(items, k) # 0

DictGet(items, k) == items[DictFind(items, k)].v

\* dict.__setitem__: an existing key keeps its position and its key object.
DictSet(items, k, v) ==
  LET i == DictFind(items, k) IN
  IF i = 0 THEN Append(items, Item(k, v))
  ELSE [items EXCEPT ![i].v = v]

DictDel(items, k) ==
  LET i == DictFind(items, k) IN
  SubSeq(items, 1, i - 1) \o SubSeq(items, i + 1, Len(items))

DictKeys(items) == [i \in 1..Len(items) |-> items[i].k]

(***************************************************************************)
(* Settings: iteration and key resolution                                  *)
(***************************************************************************)

\* The order sorted() compares keys by: their own order, or that of str(key).
KeyLess(byStr, a, b) ==
  IF byStr THEN StrLess(StrOf(a), StrOf(b))
  ELSE IF a.t = "int" THEN a.n < b.n
  ELSE StrLess(a.s, b.s)

\* One step of a stable sort: k goes before the first element greater than it.
RECURSIVE InsertSorted(_, _, _)
InsertSorted(byStr, sorted, k) ==
  IF sorted = <<>> THEN <<k>>
  ELSE IF KeyLess(byStr, k, sorted[1]) THEN <<k>> \o sorted
  ELSE <<sorted[1]>> \o InsertSorted(byStr, Tail(sorted), k)

RECURSIVE SortKeys(_, _, _, _)
SortKeys(byStr, keys, i, acc) ==
  IF i > Len(keys) THEN acc
  ELSE SortKeys(byStr, keys, i + 1, InsertSorted(byStr, acc, keys[i]))

\* sorted(keys) raises TypeError exactly when a str and an int are compared.
Comparable(keys) ==
  \/ \A i \in 1..Len(keys) : IsStr(keys[i])
  \/ \A i \in 1..Len(keys) : keys[i].t = "int"

\* An iteration that follows the insertion order of the dict.
iterUnsorted(h, self) == DictKeys(h[self].items)

\* Settings.__iter__: sorted(self.keys()), and on TypeError
\* sorted(self.keys(), key=str).
__iter__(h, self) ==
  LET keys == DictKeys(h[self].items) IN
  IF Comparable(keys) THEN SortKeys(FALSE, keys, 1, <<>>)
  ELSE SortKeys(TRUE, keys, 1, <<>>)

\* "for name in other": a plain dict iterates in insertion order.
IterKeys(h, a) ==
  IF h[a].cls = "Settings" THEN __iter__(h, a) ELSE DictKeys(h[a].items)

\* "r = ...; then k(r)": an exception raised by the first step ends the call.
Then(r, K(_)) == IF r.err # "" THEN r ELSE K(r)

RECURSIVE FindCaseScan(_, _, _, _, _)
\* "for k in self" of find_case; k.lower() raises on a key that is no str.
FindCaseScan(h, keys, key, lowkey, i) ==
  IF i > Len(keys) THEN Ok(h, key)
  ELSE IF ~IsStr(keys[i]) THEN Raise(h, "AttributeError")
  ELSE IF Lower(keys[i].s) = lowkey THEN Ok(h, keys[i])
  ELSE FindCaseScan(h, keys, key, lowkey, i + 1)

\* A find_case that compares the keys as they are written.
findCaseExact(h, self, key) == Ok(h, key)

\* Settings.find_case; the key found is the r of the result.
find_case(h, self, key) ==
  IF ~IsStr(key) THEN Raise(h, "AttributeError")
  ELSE FindCaseScan(h, __iter__(h, self), key, Lower(key.s), 1)

\* "if isinstance(name, ig): name = self.find_case(name)"
Resolve(h, self, name) ==
  IF name.t = "ig" THEN find_case(h, self, name) ELSE Ok(h, name)

\* Settings.__contains__; r is TRUE or FALSE.
__contains__(h, self, name) ==
  Then(Resolve(h, self, name), LAMBDA fc : Ok(h, DictHas(h[self].items, fc.r)))

(***************************************************************************)
(* Settings: construction, item access                                     *)
(***************************************************************************)

RECURSIVE __init__(_, _)
RECURSIVE InitCopy(_, _, _, _)
RECURSIVE InitLoop(_, _, _)
RECURSIVE InitList(_, _, _, _)
RECURSIVE __setitem__(_, _, _, _)
RECURSIVE __getitem__(_, _, _)
RECURSIVE __missing__(_, _, _)

\* A __missing__ that binds nothing, as that of a regular dictionary.
missingRaises(h, self, name) == Raise(h, "KeyError")

\* Settings.__missing__
__missing__(h, self, name) ==
  Then(__init__(h, None), LAMBDA r1 :
  Then(__setitem__(r1.h, self, name, r1.r), LAMBDA r2 :
  __getitem__(r2.h, self, name)))

\* Settings.__getitem__ (dict.__getitem__ calls __missing__ for an absent key)
__getitem__(h, self, name) ==
  Then(Resolve(h, self, name), LAMBDA fc :
  IF DictHas(h[self].items, fc.r) THEN Ok(h, DictGet(h[self].items, fc.r))
  ELSE __missing__(h, self, fc.r))

\* "if isinstance(value, dict): value = Settings(value)"
ToSettings(h, value) ==
  IF IsDict(h, value) THEN __init__(h, value) ELSE Ok(h, value)

\* Settings.__setitem__
__setitem__(h, self, name, value) ==
  Then(Resolve(h, self, name), LAMBDA fc :
  Then(ToSettings(h, value), LAMBDA r1 :
  Ok([r1.h EXCEPT ![self].items = DictSet(@, fc.r, r1.r)], None)))

\* dict.__init__(self, src) for a src that is a Settings: the keys are those
\* of src.keys() and each value is read with src[key].
InitCopy(h, src, i, acc) ==
  IF i > Len(h[src].items) THEN Ok(h, acc)
  ELSE Then(__getitem__(h, src, h[src].items[i].k), LAMBDA r :
       InitCopy(r.h, src, i + 1, Append(acc, Item(h[src].items[i].k, r.r))))

\* [Settings(i) if isinstance(i, dict) else i for i in v]
InitList(h, elems, j, acc) ==
  IF j > Len(elems) THEN Alloc(h, Obj("list", acc))
  ELSE Then(ToSettings(h, elems[j].v), LAMBDA r :
       InitList(r.h, elems, j + 1, Append(acc, Item(NoKey, r.r))))

\* The body of "for k,v in self.items()" of Settings.__init__
InitItem(h, self, k, v) ==
  IF IsDict(h, v) \/ IsList(h, v) THEN
    Then(IF IsDict(h, v) THEN __init__(h, v) ELSE InitList(h, h[v.n].items, 1, <<>>),
         LAMBDA r1 : __setitem__(r1.h, self, k, r1.r))
  ELSE Ok(h, None)

\* "for k,v in self.items()" of Settings.__init__
InitLoop(h, self, i) ==
  IF i > Len(h[self].items) THEN Ok(h, Ref(self))
  ELSE Then(InitItem(h, self, h[self].items[i].k, h[self].items[i].v), LAMBDA r :
       InitLoop(r.h, self, i + 1))

\* dict.__init__(self, *args): the items the new dict starts with.
InitItems(h, src) ==
  IF src.t = "none" THEN Ok(h, <<>>)
  ELSE IF h[src.n].cls = "Settings" THEN InitCopy(h, src.n, 1, <<>>)
  ELSE Ok(h, h[src.n].items)

\* Settings.__init__: Settings() when src is None, else Settings(src).
__init__(h, src) ==
  Then(InitItems(h, src), LAMBDA r0 :
  Then(Alloc(r0.h, Obj("Settings", r0.r)), LAMBDA r1 :
  InitLoop(r1.h, r1.r.n, 1)))

\* Settings.__delitem__
__delitem__(h, self, name) ==
  Then(Resolve(h, self, name), LAMBDA fc :
  IF ~DictHas(h[self].items, fc.r) THEN Raise(h, "KeyError")
  ELSE Ok([h EXCEPT ![self].items = DictDel(@, fc.r)], None))

\* "s[i]" on whatever s is: a Settings, a plain dict, a list or a scalar.
Index(h, s, i) ==
  IF IsSettings(h, s) THEN __getitem__(h, s.n, i)
  ELSE IF IsDict(h, s) THEN
    IF DictHas(h[s.n].items, i) THEN Ok(h, DictGet(h[s.n].items, i))
    ELSE Raise(h, "KeyError")
  ELSE IF IsList(h, s) THEN
    IF i.t # "int" THEN Raise(h, "TypeError")
    ELSE IF i.n >= Len(h[s.n].items) THEN Raise(h, "IndexError")
    ELSE Ok(h, h[s.n].items[i.n + 1].v)
  ELSE Raise(h, "TypeError")

\* "s[i] = value" on whatever s is.
StoreIndex(h, s, i, value) ==
  IF IsSettings(h, s) THEN __setitem__(h, s.n, i, value)
  ELSE IF IsDict(h, s) THEN
    Ok([h EXCEPT ![s.n].items = DictSet(@, i, value)], None)
  ELSE IF IsList(h, s) THEN
    IF i.t # "int" THEN Raise(h, "TypeError")
    ELSE IF i.n >= Len(h[s.n].items) THEN Raise(h, "IndexError")
    ELSE Ok([h EXCEPT ![s.n].items[i.n + 1].v = value], None)
  ELSE Raise(h, "TypeError")

(***************************************************************************)
(* Settings: copy, soft_update, update, merge                              *)
(***************************************************************************)

\* A copy that is the original under another name.
copyAlias(h, self) == Ok(h, Ref(self))

RECURSIVE copy(_, _)
RECURSIVE CopyLoop(_, _, _, _, _)

\* "self[name].copy()" for a Settings, "self[name]" for anything else
CopyValue(h, v) == IF IsSettings(h, v) THEN copy(h, v.n) ELSE Ok(h, v)

\* "for name in self" of Settings.copy
CopyLoop(h, self, ret, names, i) ==
  IF i > Len(names) THEN Ok(h, Ref(ret))
  ELSE Then(__getitem__(h, self, names[i]), LAMBDA r1 :
       Then(CopyValue(r1.h, r1.r), LAMBDA r2 :
       Then(__setitem__(r2.h, ret, names[i], r2.r), LAMBDA r3 :
       CopyLoop(r3.h, self, ret, names, i + 1))))

\* Settings.copy
copy(h, self) ==
  Then(__init__(h, None), LAMBDA r0 :
  CopyLoop(r0.h, self, r0.r.n, __iter__(h, self), 1))

\* "other[name]": other is a Settings or a regular dictionary.
OtherGet(h, other, name) ==
  IF h[other].cls = "Settings" THEN __getitem__(h, other, name)
  ELSE Ok(h, DictGet(h[other].items, name))

\* A soft_update that sets a name whether or not it is in self.
SoftUpdateCaseOverwriting(otherIsSettings, inSelf, selfIsSettings) ==
  IF otherIsSettings THEN
    IF ~inSelf THEN "copy"
    ELSE IF selfIsSettings THEN "recurse"
    ELSE "copy"
  ELSE "set"

\* An update that leaves a name that is in self as it is.
UpdateCaseKeeping(otherIsSettings, inSelf, selfIsSettings) ==
  IF otherIsSettings THEN
    IF ~inSelf THEN "copy"
    ELSE IF selfIsSettings THEN "recurse"
    ELSE "skip"
  ELSE IF ~inSelf THEN "set"
  ELSE "skip"

\* What soft_update does with one name of other, from what it finds:
\* "copy" a Settings in, "recurse", "set" the value, or "skip".
SoftUpdateCase(otherIsSettings, inSelf, selfIsSettings) ==
  IF otherIsSettings THEN
    IF ~inSelf THEN "copy"
    ELSE IF selfIsSettings THEN "recurse"
    ELSE "skip"
  ELSE IF ~inSelf THEN "set"
  ELSE "skip"

\* What update does with one name of other.
UpdateCase(otherIsSettings, inSelf, selfIsSettings) ==
  IF otherIsSettings THEN
    IF ~inSelf \/ ~selfIsSettings THEN "copy" ELSE "recurse"
  ELSE "set"

RECURSIVE UpdateLoop(_, _, _, _, _, _)

\* "self[name]" where the code reads it: only for a name that is in self.
SelfGet(h, self, name, inSelf) ==
  IF inSelf THEN __getitem__(h, self, name) ELSE Ok(h, None)

\* One name of other: ov is other[name], sv is self[name], todo the case.
UpdateName(soft, h, self, name, ov, sv, todo) ==
  CASE todo = "copy" ->
         Then(copy(h, ov.n), LAMBDA rc : __setitem__(rc.h, self, name, rc.r))
    [] todo = "recurse" ->
         UpdateLoop(soft, h, sv.n, ov.n, IterKeys(h, ov.n), 1)
    [] todo = "set" -> __setitem__(h, self, name, ov)
    [] OTHER -> Ok(h, None)

\* "for name in other" of soft_update (soft) and of update (not soft)
UpdateLoop(soft, h, self, other, names, i) ==
  IF i > Len(names) THEN Ok(h, IF soft THEN Ref(self) ELSE None)
  ELSE Then(OtherGet(h, other, names[i]), LAMBDA ro :
       Then(__contains__(ro.h, self, names[i]), LAMBDA c :
       Then(SelfGet(c.h, self, names[i], c.r), LAMBDA rs :
       Then(UpdateName(soft, rs.h, self, names[i], ro.r, rs.r,
                       IF soft
                       THEN SoftUpdateCase(IsSettings(rs.h, ro.r), c.r, IsSettings(rs.h, rs.r))
                       ELSE UpdateCase(IsSettings(rs.h, ro.r), c.r, IsSettings(rs.h, rs.r))),
            LAMBDA r :
       UpdateLoop(soft, r.h, self, other, names, i + 1)))))

\* A merge that soft-updates self itself.
mergeInPlace(h, self, other) == UpdateLoop(TRUE, h, self, other, IterKeys(h, other), 1)

\* Settings.soft_update
soft_update(h, self, other) ==
  UpdateLoop(TRUE, h, self, other, IterKeys(h, other), 1)

\* Settings.update
update(h, self, other) ==
  UpdateLoop(FALSE, h, self, other, IterKeys(h, other), 1)

\* Settings.merge
merge(h, self, other) ==
  Then(copy(h, self), LAMBDA ret :
  Then(soft_update(ret.h, ret.r.n, other), LAMBDA r :
  Ok(r.h, ret.r)))

(***************************************************************************)
(* Settings: as_dict, get_nested, set_nested                               *)
(***************************************************************************)

RECURSIVE as_dict(_, _)
RECURSIVE AsDictLoop(_, _, _, _)
RECURSIVE AsDictList(_, _, _, _)

\* "i.as_dict() if isinstance(i, Settings) else i"
AsDictElem(h, v) == IF IsSettings(h, v) THEN as_dict(h, v.n) ELSE Ok(h, v)

\* [i.as_dict() if isinstance(i, Settings) else i for i in v]
AsDictList(h, elems, j, acc) ==
  IF j > Len(elems) THEN Alloc(h, Obj("list", acc))
  ELSE Then(AsDictElem(h, elems[j].v), LAMBDA r :
       AsDictList(r.h, elems, j + 1, Append(acc, Item(NoKey, r.r))))

\* What as_dict stores for the value v of a key.
AsDictValue(h, v) ==
  IF IsSettings(h, v) THEN as_dict(h, v.n)
  ELSE IF IsList(h, v) THEN AsDictList(h, h[v.n].items, 1, <<>>)
  ELSE Ok(h, v)

\* "for k, v in self.items()" of as_dict
AsDictLoop(h, self, d, i) ==
  IF i > Len(h[self].items) THEN Ok(h, Ref(d))
  ELSE Then(AsDictValue(h, h[self].items[i].v), LAMBDA r :
       AsDictLoop([r.h EXCEPT ![d].items = DictSet(@, h[self].items[i].k, r.r)],
                  self, d, i + 1))

\* Settings.as_dict
as_dict(h, self) ==
  Then(Alloc(h, Obj("dict", <<>>)), LAMBDA d : AsDictLoop(d.h, self, d.r.n, 1))

RECURSIVE NestedWalk(_, _, _, _)
\* "for i in key_tuple: s = s[i]"
NestedWalk(h, s, key_tuple, j) ==
  IF j > Len(key_tuple) THEN Ok(h, s)
  ELSE Then(Index(h, s, key_tuple[j]), LAMBDA r :
       NestedWalk(r.h, r.r, key_tuple, j + 1))

\* Settings.get_nested
get_nested(h, self, key_tuple) == NestedWalk(h, Ref(self), key_tuple, 1)

\* Settings.set_nested
set_nested(h, self, key_tuple, value) ==
  Then(NestedWalk(h, Ref(self), SubSeq(key_tuple, 1, Len(key_tuple) - 1), 1), LAMBDA r :
  IF key_tuple = <<>> THEN Raise(r.h, "IndexError")
  ELSE StoreIndex(r.h, r.r, key_tuple[Len(key_tuple)], value))

(***************************************************************************)
(* Settings: attribute access                                              *)
(***************************************************************************)

\* "self.name": the instance __dict__ first, and Settings.__getattr__ when
\* the name is not found there.
__getattr__(h, self, name) ==
  IF DictHas(h[self].attrs, Str(name)) THEN Ok(h, DictGet(h[self].attrs, Str(name)))
  ELSE IF IsDunder(name) THEN Raise(h, "AttributeError")
  ELSE __getitem__(h, self, Str(name))

\* "dict.__setattr__(self, name, value)" when the name is a dunder name
SetAttrDunder(h, self, name, value) ==
  IF IsDunder(name) THEN [h EXCEPT ![self].attrs = DictSet(@, Str(name), value)]
  ELSE h

\* Settings.__setattr__
__setattr__(h, self, name, value) ==
  __setitem__(SetAttrDunder(h, self, name, value), self, Str(name), value)

\* "dict.__delattr__(self, name)" when the name is a dunder name
DelAttrDunder(h, self, name) ==
  IF ~IsDunder(name) THEN Ok(h, None)
  ELSE IF ~DictHas(h[self].attrs, Str(name)) THEN Raise(h, "AttributeError")
  ELSE Ok([h EXCEPT ![self].attrs = DictDel(@, Str(name))], None)

\* Settings.__delattr__
__delattr__(h, self, name) ==
  Then(DelAttrDunder(h, self, name), LAMBDA r : __delitem__(r.h, self, Str(name)))

(***************************************************************************)
(* Values as trees: what a caller passes in and what it can observe        *)
(***************************************************************************)

\* A scalar, a list and a mapping written out as a value: what a literal
\* such as {'a': 1, 'x': {'y': [1]}} denotes.
TInt(i) == [t |-> "int", n |-> i, items |-> <<>>]
TList(elems) == [t |-> "list", n |-> 0, items |-> [j \in 1..Len(elems) |-> Item(NoKey, elems[j])]]
TDict(items) == [t |-> "dict", n |-> 0, items |-> items]
TNone == [t |-> "none", n |-> 0, items |-> <<>>]

RECURSIVE Load(_, _)
RECURSIVE LoadItems(_, _, _, _)

LoadItems(h, items, j, acc) ==
  IF j > Len(items) THEN Ok(h, acc)
  ELSE Then(Load(h, items[j].v), LAMBDA r :
       LoadItems(r.h, items, j + 1, Append(acc, Item(items[j].k, r.r))))

\* Evaluating a literal: its lists and plain dicts become heap objects.
Load(h, lit) ==
  IF lit.t = "int" THEN Ok(h, Num(lit.n))
  ELSE IF lit.t = "none" THEN Ok(h, None)
  ELSE Then(LoadItems(h, lit.items, 1, <<>>), LAMBDA r : Alloc(r.h, Obj(lit.t, r.r)))

\* The value v of heap h written out: every key and value, at every depth,
\* with the class of every container and the insertion order of every dict.
RECURSIVE Tree(_, _)
Tree(h, v) ==
  IF v.t = "int" THEN TInt(v.n)
  ELSE IF v.t = "none" THEN TNone
  ELSE [t |-> h[v.n].cls, n |-> 0,
        items |-> [j \in 1..Len(h[v.n].items) |->
                     Item(h[v.n].items[j].k, Tree(h, h[v.n].items[j].v))]]

(***************************************************************************)
(* What a caller can reach                                                 *)
(***************************************************************************)

\* The Settings nested in the Settings at address a through keys (a itself
\* included): the internal nodes of the tree.
RECURSIVE KeyNodes(_, _)
KeyNodes(h, a) ==
  {a} \cup UNION { KeyNodes(h, h[a].items[j].v.n) :
                     j \in {i \in 1..Len(h[a].items) : IsSettings(h, h[a].items[i].v)} }

\* Every container (Settings, plain dict, list) reachable from value v,
\* through keys and through list elements.
RECURSIVE Reach(_, _)
Reach(h, v) ==
  IF ~IsRef(v) THEN {}
  ELSE {v.n} \cup UNION { Reach(h, h[v.n].items[j].v) : j \in 1..Len(h[v.n].items) }

\* The lists that are values of keys of the tree at a.
LeafLists(h, a) ==
  UNION { { h[n].items[j].v.n :
              j \in {i \in 1..Len(h[n].items) : IsList(h, h[n].items[i].v)} } :
          n \in KeyNodes(h, a) }

(***************************************************************************)
(* The state machine                                                       *)
(*   heap  the objects                                                     *)
(*   env   the caller's variables: addresses (0: unbound) and the number   *)
(*         of calls made                                                   *)
(*   last  the last call: the method, its arguments, what it returned or   *)
(*         raised                                                          *)
(*   pre   the heap before the last call                                   *)
(***************************************************************************)

NoCall ==
  [op |-> "", self |-> 0, other |-> 0, key |-> NoKey, val |-> None,
   path |-> <<>>, name |-> <<>>, ret |-> None, err |-> "", keys |-> <<>>]

NoEnv == [S |-> 0, O |-> 0, C |-> 0, R |-> 0, M |-> 0, D |-> 0, n |-> 0]

\* One call: h0 is the heap it starts from (the caller's arguments built),
\* r its result, c describes it, e is env after it.
Call(h0, r, c, e) ==
  /\ heap' = r.h
  /\ pre' = h0
  /\ last' = [c EXCEPT !.ret = r.r, !.err = r.err]
  /\ env' = [e EXCEPT !.n = env.n + 1]

\* The keys used in the examples: a, x, y, z.
Ka == Str(<<97>>)
Kx == Str(<<120>>)
Ky == Str(<<121>>)
Kz == Str(<<122>>)

\* Python's == on two values written out: dicts compare by their items
\* whatever their order and class, lists element by element.
RECURSIVE PyEq(_, _)
PyEq(t1, t2) ==
  IF t1.t \in {"int", "none"} \/ t2.t \in {"int", "none"}
  THEN t1.t = t2.t /\ t1.n = t2.n
  ELSE IF t1.t = "list" \/ t2.t = "list"
  THEN /\ t1.t = t2.t
       /\ Len(t1.items) = Len(t2.items)
       /\ \A j \in 1..Len(t1.items) : PyEq(t1.items[j].v, t2.items[j].v)
  ELSE /\ Len(t1.items) = Len(t2.items)
       /\ \A i \in 1..Len(t1.items) : \E j \in 1..Len(t2.items) :
            /\ KeyEq(t1.items[i].k, t2.items[j].k)
            /\ PyEq(t1.items[i].v, t2.items[j].v)

\* A Settings written out, as Tree shows it.
TSettings(items) == [t |-> "Settings", n |-> 0, items |-> items]

\* A mapping literal from the choice made for each key: TNone leaves the
\* key out.
Compact(items) == SelectSeq(items, LAMBDA it : it.v.t # "none")

(***************************************************************************)
(* Spec: a store S and a store O, soft_update and update                   *)
(***************************************************************************)

MaxOps == 1

\* The values under a key of S and of O at the start.  The examples
\* S = {a: 1, x: {y: 1}} and O = {a: 2, x: {y: 2, z: 3}} are among them.
ChoicesS ==
  { TNone, TInt(1), TDict(<<>>), TDict(<<Item(Ky, TInt(1))>>) }

ChoicesO ==
  { TNone, TInt(2), TList(<<TInt(2)>>), TDict(<<>>), TDict(<<Item(Ky, TInt(2))>>),
    TDict(<<Item(Ky, TInt(2)), Item(Kz, TInt(3))>>) }

\* The first key of O: 'a', or the case-insensitive ig('A').
KeysO == { Ka, Ig(<<65>>) }

\* A regular dictionary passed as other.
PlainOthers ==
  { TDict(<<Item(Ka, TInt(2)), Item(Kx, TDict(<<Item(Kz, TInt(3))>>))>>),
    TDict(<<Item(Kx, TInt(2)), Item(Kz, TList(<<TInt(2)>>))>>) }

\* S = Settings(m1); O = Settings(m2)
\* Settings(m): the literal m evaluated, then the constructor.
Construct(h, m) == Then(Load(h, m), LAMBDA l : __init__(l.h, l.r))

InitState(r1, r2) ==
  /\ heap = r2.h
  /\ pre = r2.h
  /\ last = NoCall
  /\ env = [NoEnv EXCEPT !.S = r1.r.n, !.O = r2.r.n]

InitSecond(r1, m2) == InitState(r1, Construct(r1.h, m2))

InitWith(m1, m2) == InitSecond(Construct(<<>>, m1), m2)

Init ==
  \E ca \in ChoicesS, cx \in ChoicesS, ka \in KeysO, oa \in ChoicesO, ox \in ChoicesO :
    InitWith(TDict(Compact(<<Item(Ka, ca), Item(Kx, cx)>>)),
             TDict(Compact(<<Item(ka, oa), Item(Kx, ox)>>)))

\* self.soft_update(other) or self.update(other) with the regular
\* dictionary that l holds.
CallOther(op, self, l) ==
  Call(l.h,
       IF op = "update" THEN update(l.h, self, l.r.n) ELSE soft_update(l.h, self, l.r.n),
       [NoCall EXCEPT !.op = op, !.self = self, !.other = l.r.n], env)

\* self.soft_update(other), other a Settings
SoftUpdate ==
  /\ env.n < MaxOps
  /\ \E self \in KeyNodes(heap, env.S), other \in KeyNodes(heap, env.O) :
       Call(heap, soft_update(heap, self, other),
            [NoCall EXCEPT !.op = "soft_update", !.self = self, !.other = other], env)

\* self.soft_update(other), other a regular dictionary
SoftUpdatePlain ==
  /\ env.n < MaxOps
  /\ \E self \in KeyNodes(heap, env.S), lit \in PlainOthers :
       CallOther("soft_update", self, Load(heap, lit))

\* self.update(other), other a Settings
Update ==
  /\ env.n < MaxOps
  /\ \E self \in KeyNodes(heap, env.S), other \in KeyNodes(heap, env.O) :
       Call(heap, update(heap, self, other),
            [NoCall EXCEPT !.op = "update", !.self = self, !.other = other], env)

\* self.update(other), other a regular dictionary
UpdatePlain ==
  /\ env.n < MaxOps
  /\ \E self \in KeyNodes(heap, env.S), lit \in PlainOthers :
       CallOther("update", self, Load(heap, lit))

Next == SoftUpdate \/ SoftUpdatePlain \/ Update \/ UpdatePlain

Spec == Init /\ [][Next]_vars

(***************************************************************************)
(* soft_update and update: what a call leaves in self                      *)
(***************************************************************************)

\* The example of the documentation: S = {a: 1, x: {y: 1}} and
\* O = {a: 2, x: {y: 2, z: 3}}.
ExampleS ==
  TSettings(<<Item(Ka, TInt(1)), Item(Kx, TSettings(<<Item(Ky, TInt(1))>>))>>)

ExampleO ==
  TSettings(<<Item(Ka, TInt(2)),
              Item(Kx, TSettings(<<Item(Ky, TInt(2)), Item(Kz, TInt(3))>>))>>)

ExampleCall ==
  /\ last.self = env.S
  /\ last.other = env.O
  /\ Tree(pre, Ref(env.S)) = ExampleS
  /\ Tree(pre, Ref(env.O)) = ExampleO

\* The positions in other (before the call) of the names that self (before
\* the call) resolves to its key k.
NamesFor(s, o, k) ==
  { i \in 1..Len(pre[o].items) : KeyEq(Resolve(pre, s, pre[o].items[i].k).r, k) }

\* Between pre and heap, the Settings s was not overwritten from o: the items
\* s had are where they were, with the key and the value they had; a value
\* that was no Settings is as it was at every depth, one that was a Settings
\* is not overwritten from o's Settings under that name, and is as it was
\* when o has none; every item added is a name of o that s did not have, with
\* o's value (a new Settings where o's value is a mapping).
RECURSIVE NoOverwrite(_, _)
NoOverwrite(s, o) ==
  /\ Len(heap[s].items) >= Len(pre[s].items)
  /\ \A j \in 1..Len(pre[s].items) :
       /\ heap[s].items[j] = pre[s].items[j]
       /\ IF /\ IsSettings(pre, pre[s].items[j].v)
             /\ \E i \in NamesFor(s, o, pre[s].items[j].k) : IsSettings(pre, pre[o].items[i].v)
          THEN \A i \in NamesFor(s, o, pre[s].items[j].k) :
                 IsSettings(pre, pre[o].items[i].v)
                   => NoOverwrite(pre[s].items[j].v.n, pre[o].items[i].v.n)
          ELSE Tree(heap, pre[s].items[j].v) = Tree(pre, pre[s].items[j].v)
  /\ \A j \in (Len(pre[s].items) + 1)..Len(heap[s].items) :
       \E i \in 1..Len(pre[o].items) :
         /\ pre[o].items[i].k = heap[s].items[j].k
         /\ ~DictHas(pre[s].items, Resolve(pre, s, pre[o].items[i].k).r)
         /\ PyEq(Tree(heap, heap[s].items[j].v), Tree(pre, pre[o].items[i].v))
         /\ IF IsDict(pre, pre[o].items[i].v)
            THEN IsSettings(heap, heap[s].items[j].v) /\ heap[s].items[j].v.n > Len(pre)
            ELSE heap[s].items[j].v = pre[o].items[i].v

\* C1: soft_update never overwrites.  After self.soft_update(other), other a
\* Settings or a regular dictionary, every key self had with a value that is
\* no Settings holds exactly that value, every key it had with a Settings
\* holds that Settings, soft-updated in turn when other's value is a Settings
\* and untouched otherwise, and the keys added are keys of other that self
\* did not have; the call returns self; S = {a: 1, x: {y: 1}} soft-updated
\* with O = {a: 2, x: {y: 2, z: 3}} is {a: 1, x: {y: 1, z: 3}}.
C1_SoftUpdateNeverOverwrites ==
  last.op = "soft_update" =>
    /\ last.err = ""
    /\ last.ret = Ref(last.self)
    /\ NoOverwrite(last.self, last.other)
    /\ ExampleCall =>
         Tree(heap, Ref(env.S)) =
           TSettings(<<Item(Ka, TInt(1)),
                       Item(Kx, TSettings(<<Item(Ky, TInt(1)), Item(Kz, TInt(3))>>))>>)

\* The example has been soft-updated: a kept 1, x.y kept 1, x.z came in.
C1_Witness ==
  /\ last.op = "soft_update"
  /\ ExampleCall
  /\ DictGet(heap[env.S].items, Ka) = Num(1)
  /\ DictHas(heap[DictGet(heap[env.S].items, Kx).n].items, Kz)

\* Between pre and heap, the Settings s was overwritten from o: under every
\* name of o, s holds the Settings it had, overwritten in turn, when both had
\* a Settings there, and otherwise a value equal to o's (a new Settings where
\* o's is a mapping, o's own value where it is not); the keys of s that are
\* no names of o hold what they held.
RECURSIVE Overwritten(_, _)
Overwritten(s, o) ==
  /\ \A i \in 1..Len(pre[o].items) :
       /\ DictHas(heap[s].items, Resolve(heap, s, pre[o].items[i].k).r)
       /\ IF /\ IsSettings(pre, pre[o].items[i].v)
             /\ DictHas(pre[s].items, Resolve(pre, s, pre[o].items[i].k).r)
             /\ IsSettings(pre, DictGet(pre[s].items, Resolve(pre, s, pre[o].items[i].k).r))
          THEN /\ DictGet(heap[s].items, Resolve(heap, s, pre[o].items[i].k).r)
                    = DictGet(pre[s].items, Resolve(pre, s, pre[o].items[i].k).r)
               /\ Overwritten(DictGet(pre[s].items, Resolve(pre, s, pre[o].items[i].k).r).n,
                              pre[o].items[i].v.n)
          ELSE /\ PyEq(Tree(heap, DictGet(heap[s].items, Resolve(heap, s, pre[o].items[i].k).r)),
                       Tree(pre, pre[o].items[i].v))
               /\ IF IsDict(pre, pre[o].items[i].v)
                  THEN /\ IsSettings(heap, DictGet(heap[s].items, Resolve(heap, s, pre[o].items[i].k).r))
                       /\ DictGet(heap[s].items, Resolve(heap, s, pre[o].items[i].k).r).n > Len(pre)
                  ELSE DictGet(heap[s].items, Resolve(heap, s, pre[o].items[i].k).r)
                         = pre[o].items[i].v
  /\ \A j \in 1..Len(pre[s].items) :
       /\ heap[s].items[j].k = pre[s].items[j].k
       /\ NamesFor(s, o, pre[s].items[j].k) = {} =>
            /\ heap[s].items[j].v = pre[s].items[j].v
            /\ Tree(heap, pre[s].items[j].v) = Tree(pre, pre[s].items[j].v)
  /\ \A j \in (Len(pre[s].items) + 1)..Len(heap[s].items) :
       \E i \in 1..Len(pre[o].items) : pre[o].items[i].k = heap[s].items[j].k

\* C2: update always overwrites.  After self.update(other), for every key k
\* of other: when other[k] and the old self[k] are both Settings, self[k] is
\* that same Settings updated in turn with other[k]; otherwise self[k] equals
\* other[k], and is a new Settings when other[k] is a mapping; the keys of
\* self that are not in other hold what they held, no other key is added and
\* nothing is returned; S = {a: 1, x: {y: 1}} updated with
\* O = {a: 2, x: {y: 2, z: 3}} is {a: 2, x: {y: 2, z: 3}}.
C2_UpdateAlwaysOverwrites ==
  last.op = "update" =>
    /\ last.err = ""
    /\ last.ret = None
    /\ Overwritten(last.self, last.other)
    /\ ExampleCall => Tree(heap, Ref(env.S)) = ExampleO

\* The example has been updated: a went from 1 to 2 and x.y from 1 to 2.
C2_Witness ==
  /\ last.op = "update"
  /\ ExampleCall
  /\ DictGet(heap[env.S].items, Ka) = Num(2)
  /\ DictGet(heap[DictGet(heap[env.S].items, Kx).n].items, Ky) = Num(2)

(***************************************************************************)
(* SpecCopy: a store S and a store O; C = S.copy(), R = S.merge(O), and    *)
(* what callers then do to the stores                                      *)
(***************************************************************************)

MaxCopyOps == 2

\* S: scalars, a list leaf at the top and under x, a list holding a mapping,
\* a list holding a list, Settings two levels down.
CopySources ==
  { TDict(<<Item(Ka, TInt(1)), Item(Kx, TDict(<<Item(Ky, TInt(1))>>))>>),
    TDict(<<Item(Ka, TList(<<TInt(1)>>)), Item(Kx, TDict(<<Item(Ky, TList(<<TInt(1)>>))>>))>>),
    TDict(<<Item(Ka, TList(<<TDict(<<Item(Ky, TInt(1))>>)>>)),
            Item(Kx, TDict(<<Item(Ky, TDict(<<Item(Kz, TInt(1))>>))>>))>>),
    TDict(<<Item(Kx, TDict(<<Item(Ky, TList(<<TList(<<TInt(1)>>)>>))>>))>>) }

CopyOthers ==
  { TDict(<<Item(Ka, TInt(2)),
            Item(Kx, TDict(<<Item(Ky, TInt(2)), Item(Kz, TInt(3))>>))>>),
    TDict(<<Item(Ka, TList(<<TInt(2)>>)), Item(Kz, TDict(<<Item(Ky, TInt(2))>>))>>) }

\* What an assignment stores: a scalar or a mapping.
SetValues == { TInt(7), TDict(<<Item(Kz, TInt(7))>>) }

InitCopies == \E m1 \in CopySources, m2 \in CopyOthers : InitWith(m1, m2)

\* The stores the caller holds.
Roots == {env.S} \cup {a \in {env.C, env.R} : a # 0}

\* The elements of the lists in ls, and of the lists in those.
RECURSIVE ListElems(_, _)
ListElems(h, l) ==
  UNION { {h[l].items[j].v} \cup
            (IF IsList(h, h[l].items[j].v) THEN ListElems(h, h[l].items[j].v.n) ELSE {}) :
          j \in 1..Len(h[l].items) }

\* The Settings that are elements of the list leaves of the store at a.
ListNodes(h, a) ==
  { v.n : v \in { e \in UNION { ListElems(h, l) : l \in LeafLists(h, a) } : IsSettings(h, e) } }

\* The lists of the store at a: its list leaves and the lists inside them.
Lists(h, a) ==
  LeafLists(h, a) \cup
  { v.n : v \in { e \in UNION { ListElems(h, l) : l \in LeafLists(h, a) } : IsList(h, e) } }

\* The Settings a caller mutates: those nested in its stores through keys...
Targets == UNION { KeyNodes(heap, a) : a \in Roots }

\* ... and those it finds inside a list leaf.
TargetsInLists == UNION { ListNodes(heap, a) : a \in Roots }

CallCopy(r) ==
  Call(heap, r, [NoCall EXCEPT !.op = "copy", !.self = env.S],
       [env EXCEPT !.C = r.r.n])

CallMerge(h0, other, r) ==
  Call(h0, r, [NoCall EXCEPT !.op = "merge", !.self = env.S, !.other = other],
       [env EXCEPT !.R = r.r.n])

CallMergeOther(l) == CallMerge(l.h, l.r.n, merge(l.h, env.S, l.r.n))

\* t[k] = the value that l holds
CallSet(t, k, l) ==
  Call(l.h, __setitem__(l.h, t, k, l.r),
       [NoCall EXCEPT !.op = "setitem", !.self = t, !.key = k, !.val = l.r], env)

\* C = S.copy()
Copy ==
  /\ env.n < MaxCopyOps
  /\ env.C = 0
  /\ CallCopy(copy(heap, env.S))

\* R = S.merge(O)
Merge ==
  /\ env.n < MaxCopyOps
  /\ env.R = 0
  /\ CallMerge(heap, env.O, merge(heap, env.S, env.O))

\* R = S.merge(d), d a regular dictionary
MergePlain ==
  /\ env.n < MaxCopyOps
  /\ env.R = 0
  /\ \E lit \in PlainOthers : CallMergeOther(Load(heap, lit))

\* The caller has made a copy or a merge of S.
Copied == env.C # 0 \/ env.R # 0

\* t[k] = v for a scalar or a mapping v
SetItem ==
  /\ env.n < MaxCopyOps
  /\ Copied
  /\ \E t \in Targets \cup TargetsInLists, k \in {Kx, Ky}, lit \in SetValues :
       CallSet(t, k, Load(heap, lit))

\* t[k] = r for a store r the caller holds
SetItemStore ==
  /\ env.n < MaxCopyOps
  /\ Copied
  /\ \E t \in Targets, k \in {Kx, Ky}, r \in Roots :
       CallSet(t, k, Ok(heap, Ref(r)))

\* del t[k]
DelItem ==
  /\ env.n < MaxCopyOps
  /\ Copied
  /\ \E t \in Targets, k \in {Ka, Kx, Ky} :
       Call(heap, __delitem__(heap, t, k),
            [NoCall EXCEPT !.op = "delitem", !.self = t, !.key = k], env)

\* t[k], which binds an empty Settings at k when t has no k
GetItem ==
  /\ env.n < MaxCopyOps
  /\ Copied
  /\ \E t \in Targets, k \in {Kx, Ky, Kz} :
       Call(heap, __getitem__(heap, t, k),
            [NoCall EXCEPT !.op = "getitem", !.self = t, !.key = k], env)

\* t.update(o) and t.soft_update(o), o in O or another store of the caller
UpdateFrom ==
  /\ env.n < MaxCopyOps
  /\ Copied
  /\ \E t \in Targets, o \in KeyNodes(heap, env.O) \cup Roots, soft \in BOOLEAN :
       /\ o # t
       /\ Call(heap, UpdateLoop(soft, heap, t, o, IterKeys(heap, o), 1),
               [NoCall EXCEPT !.op = IF soft THEN "soft_update" ELSE "update",
                              !.self = t, !.other = o], env)

\* l.append(9) on a list of a store
ListAppend ==
  /\ env.n < MaxCopyOps
  /\ Copied
  /\ \E l \in UNION { Lists(heap, a) : a \in Roots } :
       Call(heap, Ok([heap EXCEPT ![l].items = Append(@, Item(NoKey, Num(9)))], None),
            [NoCall EXCEPT !.op = "append", !.self = l], env)

NextCopy ==
  \/ Copy \/ Merge \/ MergePlain \/ SetItem \/ SetItemStore \/ DelItem \/ GetItem
  \/ UpdateFrom \/ ListAppend

SpecCopy == InitCopies /\ [][NextCopy]_vars

\* The calls that mutate the Settings they are made on.
MutatingOps == {"setitem", "delitem", "getitem", "update", "soft_update"}

\* The stores at a and b have no Settings in common among those nested
\* through keys.
Disjoint(h, a, b) == KeyNodes(h, a) \cap KeyNodes(h, b) = {}

\* The object at address n is inside a list leaf of the store at a and inside
\* a list leaf of the store at b.
InSharedLeaf(h, a, b, n) ==
  /\ \E l \in LeafLists(h, a) : n \in Reach(h, Ref(l))
  /\ \E l \in LeafLists(h, b) : n \in Reach(h, Ref(l))

\* The last call, when made on a Settings nested through keys in the store
\* at a, left the store at b as it was; when made on anything else of the
\* store at a and showing in b, it was made inside a list leaf of a that is
\* also inside a list leaf of b.
Independent(a, b) ==
  /\ last.self \in KeyNodes(pre, a) => Tree(heap, Ref(b)) = Tree(pre, Ref(b))
  /\ (last.self \in Reach(pre, Ref(a)) /\ Tree(heap, Ref(b)) # Tree(pre, Ref(b)))
       => InSharedLeaf(pre, a, b, last.self)

C4_WitnessSharedLeaf ==
  /\ env.C # 0
  /\ last.op = "append"
  /\ last.self \in LeafLists(pre, env.S)
  /\ Tree(heap, Ref(env.C)) # Tree(pre, Ref(env.C))

(***************************************************************************)
(* SpecIter: one store, keys set and deleted in any order, iteration       *)
(***************************************************************************)

MaxKeys == 3
MaxIterOps == 2

Kb == Str(<<98>>)
KA == Str(<<65>>)
Kc == Str(<<99>>)
KSystem == Str(<<83, 121, 115, 116, 101, 109>>)
Ksystem == Str(<<115, 121, 115, 116, 101, 109>>)

\* 'b', 'A', 'c', the ints 2 and 10, and the str '10'.
IterChoices == { Kb, KA, Kc, IntKey(2), IntKey(10), Str(<<49, 48>>) }

\* The sequences of at most MaxKeys different keys among those of U.
KeySeqs(U) ==
  UNION { { q \in [1..n -> U] : \A i, j \in 1..n : i # j => ~KeyEq(q[i], q[j]) } :
          n \in 0..MaxKeys }

\* s = Settings(); s[keys[1]] = 1; s[keys[2]] = 2; ...
RECURSIVE SetAll(_, _, _, _)
SetAll(h, self, keys, i) ==
  IF i > Len(keys) THEN Ok(h, Ref(self))
  ELSE Then(__setitem__(h, self, keys[i], Num(i)), LAMBDA r :
       SetAll(r.h, self, keys, i + 1))

NewStore(keys) ==
  Then(__init__(<<>>, None), LAMBDA r : SetAll(r.h, r.r.n, keys, 1))

InitStore(r) ==
  /\ heap = r.h
  /\ pre = r.h
  /\ last = NoCall
  /\ env = [NoEnv EXCEPT !.S = r.r.n]

InitIter == \E q \in KeySeqs(IterChoices) : InitStore(NewStore(q))

\* s[k] = 0
IterSet ==
  /\ env.n < MaxIterOps
  /\ \E k \in IterChoices :
       Call(heap, __setitem__(heap, env.S, k, Num(0)),
            [NoCall EXCEPT !.op = "setitem", !.self = env.S, !.key = k, !.val = Num(0)], env)

\* del s[k]
IterDel ==
  /\ env.n < MaxIterOps
  /\ \E k \in IterChoices :
       Call(heap, __delitem__(heap, env.S, k),
            [NoCall EXCEPT !.op = "delitem", !.self = env.S, !.key = k], env)

\* list(s): the keys in the order iteration yields them
Iterate ==
  /\ env.n < MaxIterOps
  /\ Call(heap, Ok(heap, None),
          [NoCall EXCEPT !.op = "iter", !.self = env.S, !.keys = __iter__(heap, env.S)], env)

NextIter == IterSet \/ IterDel \/ Iterate

SpecIter == InitIter /\ [][NextIter]_vars

\* The keys yielded are the keys of the store, each once.
YieldsEachKeyOnce ==
  /\ Len(last.keys) = Len(heap[last.self].items)
  /\ \A j \in 1..Len(heap[last.self].items) :
       \E i \in 1..Len(last.keys) : last.keys[i] = heap[last.self].items[j].k

\* The keys yielded ascend by their string forms.
AscendingByStr ==
  \A i, j \in 1..Len(last.keys) :
    i < j => ~StrLess(StrOf(last.keys[j]), StrOf(last.keys[i]))

\* What iteration yields for a store that got the keys in the order q.
IterOf(q) ==
  __iter__(<<Obj("Settings", [i \in 1..Len(q) |-> Item(q[i], None)])>>, 1)

\* The keys of the store in every order they can have been inserted in.
Reorderings(keys) ==
  { [i \in 1..Len(keys) |-> keys[p[i]]] :
      p \in { f \in [1..Len(keys) -> 1..Len(keys)] :
                \A i, j \in 1..Len(keys) : i # j => f[i] # f[j] } }

\* Whatever the order the keys were inserted in, iteration yields this order.
InsertionIndependent ==
  \A q \in Reorderings(DictKeys(heap[last.self].items)) : IterOf(q) = last.keys

\* The claim as written: iteration yields each key once, ascending by the
\* keys' string forms, in an order that the set of keys alone decides.
C6_AsWritten ==
  last.op = "iter" =>
    /\ YieldsEachKeyOnce
    /\ AscendingByStr
    /\ InsertionIndependent

\* C6: iteration order.  Iteration yields each key of the store once.  When
\* the keys can be compared with each other (all str, or all int) they come
\* in their own ascending order, which for str keys is the ascending order of
\* their string forms; otherwise they come ascending by string form, keys
\* with one string form in the order they were inserted in.  When no two
\* keys have the same string form, the order depends on the set of keys only
\* and not on the order of insertion; keys inserted as b, A, c iterate as
\* A, b, c.
C6_IterationOrder ==
  last.op = "iter" =>
    /\ YieldsEachKeyOnce
    /\ IF Comparable(last.keys)
       THEN /\ \A i, j \in 1..Len(last.keys) :
                 i < j => KeyLess(FALSE, last.keys[i], last.keys[j])
            /\ (\A i \in 1..Len(last.keys) : IsStr(last.keys[i])) => AscendingByStr
       ELSE /\ AscendingByStr
            /\ \A i, j \in 1..Len(last.keys) :
                 (i < j /\ StrOf(last.keys[i]) = StrOf(last.keys[j])) =>
                   DictFind(heap[last.self].items, last.keys[i])
                     < DictFind(heap[last.self].items, last.keys[j])
    /\ (\A i, j \in 1..Len(last.keys) :
          i # j => StrOf(last.keys[i]) # StrOf(last.keys[j])) => InsertionIndependent
    /\ DictKeys(heap[last.self].items) = <<Kb, KA, Kc>> => last.keys = <<KA, Kb, Kc>>

\* The keys were inserted as b, A, c and iteration has yielded A, b, c.
C6_Witness ==
  /\ last.op = "iter"
  /\ DictKeys(heap[last.self].items) = <<Kb, KA, Kc>>
  /\ last.keys = <<KA, Kb, Kc>>

\* A str key and int keys iterate by string form: '10' and 10 in the order
\* of insertion, before 2.
C6_WitnessMixed ==
  /\ last.op = "iter"
  /\ last.keys = <<Str(<<49, 48>>), IntKey(10), IntKey(2)>>

(***************************************************************************)
(* SpecCase: one store with str keys, plain and ig keys in every call      *)
(***************************************************************************)

MaxCaseOps == 3

\* 'System', 'system' and 'b' ...
CaseChoices == { KSystem, Ksystem, Kb }

\* ... and ig('system'), ig('SYSTEM'), ig('B').
IgChoices ==
  { Ig(<<115, 121, 115, 116, 101, 109>>), Ig(<<83, 89, 83, 84, 69, 77>>), Ig(<<66>>) }

InitCase == \E q \in KeySeqs(CaseChoices) : InitStore(NewStore(q))

\* s[k] = 7
CaseSet ==
  /\ env.n < MaxCaseOps
  /\ \E k \in CaseChoices \cup IgChoices :
       Call(heap, __setitem__(heap, env.S, k, Num(7)),
            [NoCall EXCEPT !.op = "setitem", !.self = env.S, !.key = k, !.val = Num(7)], env)

\* s[k]
CaseGet ==
  /\ env.n < MaxCaseOps
  /\ \E k \in CaseChoices \cup IgChoices :
       Call(heap, __getitem__(heap, env.S, k),
            [NoCall EXCEPT !.op = "getitem", !.self = env.S, !.key = k], env)

\* del s[k]
CaseDel ==
  /\ env.n < MaxCaseOps
  /\ \E k \in CaseChoices \cup IgChoices :
       Call(heap, __delitem__(heap, env.S, k),
            [NoCall EXCEPT !.op = "delitem", !.self = env.S, !.key = k], env)

\* k in s
CaseContains ==
  /\ env.n < MaxCaseOps
  /\ \E k \in CaseChoices \cup IgChoices :
       Call(heap, Then(__contains__(heap, env.S, k), LAMBDA r : Ok(r.h, Bool(r.r))),
            [NoCall EXCEPT !.op = "contains", !.self = env.S, !.key = k], env)

\* The key a find_case returned, as the keys of the call.
FoundKey(r) == IF r.err = "" THEN <<r.r>> ELSE <<>>

\* s.find_case(k)
FindCase ==
  /\ env.n < MaxCaseOps
  /\ \E k \in CaseChoices \cup IgChoices :
       Call(heap, Then(find_case(heap, env.S, k), LAMBDA r : Ok(r.h, None)),
            [NoCall EXCEPT !.op = "find_case", !.self = env.S, !.key = k,
                           !.keys = FoundKey(find_case(heap, env.S, k))], env)

NextCase == CaseSet \/ CaseGet \/ CaseDel \/ CaseContains \/ FindCase

SpecCase == InitCase /\ [][NextCase]_vars

\* The positions of the keys of self whose lowercase form is that of k.
Matches(h, self, k) ==
  { j \in 1..Len(h[self].items) : Lower(h[self].items[j].k.s) = Lower(k.s) }

\* The first of those keys in lexicographic order, and k when there is none.
FirstMatch(h, self, k) ==
  IF Matches(h, self, k) = {} THEN k
  ELSE h[self].items[CHOOSE j \in Matches(h, self, k) :
                       \A i \in Matches(h, self, k) :
                         ~StrLess(h[self].items[i].k.s, h[self].items[j].k.s)].k

\* The key the last call means: an ig key resolved, another key as it is.
MeantKey ==
  IF last.key.t = "ig" THEN FirstMatch(pre, last.self, last.key) ELSE last.key

\* The last call did to the dict of self, under the key k, what the dict
\* operation of its name does.
ActedOn(k) ==
  /\ last.op = "contains" =>
       /\ last.err = ""
       /\ last.ret = Bool(DictHas(pre[last.self].items, k))
       /\ heap = pre
  /\ (last.op = "getitem" /\ DictHas(pre[last.self].items, k)) =>
       /\ last.err = ""
       /\ last.ret = DictGet(pre[last.self].items, k)
       /\ heap = pre
  /\ (last.op = "getitem" /\ ~DictHas(pre[last.self].items, k)) =>
       /\ last.err = ""
       /\ IsSettings(heap, last.ret) /\ last.ret.n > Len(pre)
       /\ heap[last.ret.n].items = <<>>
       /\ heap[last.self].items = Append(pre[last.self].items, Item(k, last.ret))
  /\ (last.op = "setitem" /\ DictHas(pre[last.self].items, k)) =>
       /\ last.err = ""
       /\ DictKeys(heap[last.self].items) = DictKeys(pre[last.self].items)
       /\ \A j \in 1..Len(pre[last.self].items) :
            heap[last.self].items[j].v =
              IF KeyEq(pre[last.self].items[j].k, k) THEN last.val
              ELSE pre[last.self].items[j].v
  /\ (last.op = "setitem" /\ ~DictHas(pre[last.self].items, k)) =>
       /\ last.err = ""
       /\ heap[last.self].items = Append(pre[last.self].items, Item(k, last.val))
  /\ (last.op = "delitem" /\ DictHas(pre[last.self].items, k)) =>
       /\ last.err = ""
       /\ Len(heap[last.self].items) = Len(pre[last.self].items) - 1
       /\ ~DictHas(heap[last.self].items, k)
       /\ \A j \in 1..Len(pre[last.self].items) :
            ~KeyEq(pre[last.self].items[j].k, k) =>
              \E i \in 1..Len(heap[last.self].items) :
                heap[last.self].items[i] = pre[last.self].items[j]
  /\ (last.op = "delitem" /\ ~DictHas(pre[last.self].items, k)) =>
       /\ last.err = "KeyError"
       /\ heap = pre

\* The store has the key 'System' and no other key that reads system in
\* lowercase.
OnlySystem ==
  /\ DictHas(pre[last.self].items, KSystem)
  /\ \A j \in Matches(pre, last.self, Ksystem) : pre[last.self].items[j].k = KSystem

\* C8: case-insensitive resolution.  On a store with str keys,
\* find_case(k) returns the key of the store, first in lexicographic order,
\* whose lowercase form is that of k, and k itself when there is none, and
\* changes nothing; get, set, contains and delete called with ig(k) do to the
\* store what the same call with that key does, so a set through ig(k) adds
\* no key when a key matches; with the key 'System' and no key 'system',
\* s[ig('system')] is the value under 'System' and find_case('system') is
\* 'System'.
C8_CaseInsensitiveResolution ==
  /\ last.op = "find_case" =>
       /\ last.err = ""
       /\ last.keys = <<FirstMatch(pre, last.self, last.key)>>
       /\ heap = pre
  /\ last.op \in {"getitem", "setitem", "contains", "delitem"} => ActedOn(MeantKey)
  /\ (last.op = "setitem" /\ last.key.t = "ig" /\ Matches(pre, last.self, last.key) # {}) =>
       DictKeys(heap[last.self].items) = DictKeys(pre[last.self].items)
  /\ (last.op = "getitem" /\ last.key = Ig(Ksystem.s) /\ OnlySystem) =>
       last.ret = DictGet(pre[last.self].items, KSystem)
  /\ (last.op = "find_case" /\ last.key = Ksystem /\ OnlySystem) =>
       last.keys = <<KSystem>>

\* With the keys 'system' and 'System', s[ig('SYSTEM')] = 7 has stored 7
\* under 'System', the first of the two, and added no key.
C8_Witness ==
  /\ last.op = "setitem"
  /\ last.key = Ig(<<83, 89, 83, 84, 69, 77>>)
  /\ DictKeys(pre[last.self].items) = <<Ksystem, KSystem>>
  /\ DictKeys(heap[last.self].items) = <<Ksystem, KSystem>>
  /\ DictGet(heap[last.self].items, KSystem) = Num(7)
  /\ DictGet(heap[last.self].items, Ksystem) = Num(1)

\* With the key 'System' only, s[ig('system')] has returned its value.
C8_WitnessExample ==
  /\ last.op = "getitem"
  /\ last.key = Ig(Ksystem.s)
  /\ DictKeys(pre[last.self].items) = <<KSystem>>
  /\ last.ret = Num(1)
  /\ heap = pre

(***************************************************************************)
(* SpecNested: one store, set_nested, get_nested and reads of a key        *)
(***************************************************************************)

MaxNestedOps == 3

\* {}, {a: 1}, {a: {b: 1}}, {a: {b: {c: 1}}, c: 2}
NestedSources ==
  { TDict(<<>>),
    TDict(<<Item(Ka, TInt(1))>>),
    TDict(<<Item(Ka, TDict(<<Item(Kb, TInt(1))>>))>>),
    TDict(<<Item(Ka, TDict(<<Item(Kb, TDict(<<Item(Kc, TInt(1))>>))>>)), Item(Kc, TInt(2))>>) }

\* The key tuples: ('a','b','c') and others, the empty one among them.
Paths ==
  { <<>>, <<Ka>>, <<Kb>>, <<Ka, Kb>>, <<Ka, Kc>>, <<Kc, Ka>>, <<Ka, Kb, Kc>>, <<Kb, Ka, Kb>> }

\* What set_nested stores: 5 or a list.
NestedValues == { TInt(5), TList(<<TInt(5)>>) }

InitNested == \E m \in NestedSources : InitStore(Construct(<<>>, m))

\* s.set_nested(path, the value that l holds)
CallSetNested(path, l) ==
  Call(l.h, set_nested(l.h, env.S, path, l.r),
       [NoCall EXCEPT !.op = "set_nested", !.self = env.S, !.path = path, !.val = l.r], env)

\* s.set_nested(path, v)
SetNested ==
  /\ env.n < MaxNestedOps
  /\ \E path \in Paths, lit \in NestedValues : CallSetNested(path, Load(heap, lit))

\* s.get_nested(path)
GetNested ==
  /\ env.n < MaxNestedOps
  /\ \E path \in Paths :
       Call(heap, get_nested(heap, env.S, path),
            [NoCall EXCEPT !.op = "get_nested", !.self = env.S, !.path = path], env)

\* t[k] for a Settings t of the store: s['a'], s['a']['b'], ...
GetKey ==
  /\ env.n < MaxNestedOps
  /\ \E t \in KeyNodes(heap, env.S), k \in {Ka, Kb, Kc} :
       Call(heap, __getitem__(heap, t, k),
            [NoCall EXCEPT !.op = "getitem", !.self = t, !.key = k], env)

NextNested == SetNested \/ GetNested \/ GetKey

SpecNested == InitNested /\ [][NextNested]_vars

\* From the Settings at a on, every key of path before the last is absent or
\* bound to a Settings.
RECURSIVE PathOpen(_, _, _, _)
PathOpen(h, a, path, j) ==
  \/ j >= Len(path)
  \/ ~DictHas(h[a].items, path[j])
  \/ /\ IsSettings(h, DictGet(h[a].items, path[j]))
     /\ PathOpen(h, DictGet(h[a].items, path[j]).n, path, j + 1)

\* The Settings at a, made by the last call, holds path[j] and nothing else,
\* bound to the value when path[j] is the last key and to such a Settings
\* when it is not.
RECURSIVE NewChain(_, _, _)
NewChain(a, path, j) ==
  /\ a > Len(pre)
  /\ Len(heap[a].items) = 1
  /\ heap[a].items[1].k = path[j]
  /\ IF j = Len(path) THEN heap[a].items[1].v = last.val
     ELSE /\ IsSettings(heap, heap[a].items[1].v)
          /\ NewChain(heap[a].items[1].v.n, path, j + 1)

\* Between pre and heap the Settings at a got the value at path[j..]: the
\* keys other than path[j] hold what they held at every depth, no key but
\* path[j] came in, and path[j] is bound to the value when it is the last
\* key, and when it is not to the Settings it was bound to, which got the
\* value at the rest of the path, or to a new one holding that rest.
RECURSIVE PathSet(_, _, _)
PathSet(a, path, j) ==
  /\ \A i \in 1..Len(pre[a].items) :
       /\ heap[a].items[i].k = pre[a].items[i].k
       /\ ~KeyEq(pre[a].items[i].k, path[j]) =>
            /\ heap[a].items[i].v = pre[a].items[i].v
            /\ Tree(heap, pre[a].items[i].v) = Tree(pre, pre[a].items[i].v)
  /\ Len(heap[a].items) =
       Len(pre[a].items) + (IF DictHas(pre[a].items, path[j]) THEN 0 ELSE 1)
  /\ DictHas(heap[a].items, path[j])
  /\ IF j = Len(path) THEN DictGet(heap[a].items, path[j]) = last.val
     ELSE /\ IsSettings(heap, DictGet(heap[a].items, path[j]))
          /\ IF DictHas(pre[a].items, path[j])
             THEN /\ DictGet(heap[a].items, path[j]) = DictGet(pre[a].items, path[j])
                  /\ PathSet(DictGet(pre[a].items, path[j]).n, path, j + 1)
             ELSE NewChain(DictGet(heap[a].items, path[j]).n, path, j + 1)

\* C7: auto-vivification through paths.  For a non-empty key tuple of which
\* every proper prefix is absent or bound to a Settings, and a value that is
\* no mapping, set_nested(path, v) raises nothing and get_nested(path) then
\* returns v and changes nothing; every proper prefix is then bound to a
\* Settings and the keys outside the path hold what they held.  Reading a
\* key that a Settings lacks returns a new empty Settings, bound at that key
\* from then on: the next read returns the same one.  On an empty store
\* set_nested(('a','b','c'), 5) then get_nested(('a','b','c')) returns 5.
C7_AutoVivification ==
  /\ ( /\ last.op = "set_nested"
       /\ last.path # <<>>
       /\ PathOpen(pre, last.self, last.path, 1)
       /\ ~IsDict(pre, last.val) ) =>
       /\ last.err = ""
       /\ get_nested(heap, last.self, last.path) = Ok(heap, last.val)
       /\ PathSet(last.self, last.path, 1)
  /\ (last.op = "getitem" /\ ~DictHas(pre[last.self].items, last.key)) =>
       /\ last.err = ""
       /\ IsSettings(heap, last.ret) /\ last.ret.n > Len(pre)
       /\ heap[last.ret.n].items = <<>>
       /\ heap[last.self].items = Append(pre[last.self].items, Item(last.key, last.ret))
       /\ \A a \in 1..Len(pre) : a # last.self => heap[a] = pre[a]
       /\ __getitem__(heap, last.self, last.key) = Ok(heap, last.ret)
  /\ (last.op = "get_nested" /\ last.path = <<Ka, Kb, Kc>>
        /\ Tree(pre, Ref(last.self)) =
             TSettings(<<Item(Ka, TSettings(<<Item(Kb, TSettings(<<Item(Kc, TInt(5))>>))>>))>>)) =>
       last.err = "" /\ last.ret = Num(5) /\ heap = pre

\* On the empty store, set_nested(('a','b','c'), 5) has made a, a.b and set
\* a.b.c.
C7_Witness ==
  /\ last.op = "set_nested"
  /\ last.path = <<Ka, Kb, Kc>>
  /\ last.val = Num(5)
  /\ pre[last.self].items = <<>>
  /\ Tree(heap, Ref(last.self)) =
       TSettings(<<Item(Ka, TSettings(<<Item(Kb, TSettings(<<Item(Kc, TInt(5))>>))>>))>>)

\* ... and get_nested(('a','b','c')) has then returned 5.
C7_WitnessGet ==
  /\ last.op = "get_nested"
  /\ last.path = <<Ka, Kb, Kc>>
  /\ last.ret = Num(5)
  /\ env.n >= 2

\* On the empty store, a read of 'a' has returned a new empty Settings.
C7_WitnessRead ==
  /\ last.op = "getitem"
  /\ pre[last.self].items = <<>>
  /\ IsSettings(heap, last.ret)
  /\ heap[last.self].items = <<Item(Ka, last.ret)>>

(***************************************************************************)
(* SpecTree: a regular dictionary M, S = Settings(M), D = S.as_dict(), and *)
(* the calls that put values into S                                        *)
(***************************************************************************)

MaxTreeOps == 3

\* M: nested mappings, lists holding mappings, a list holding a list, and
\* keys that are ig strings.
TreeSources ==
  { TDict(<<>>),
    TDict(<<Item(Ka, TInt(1)), Item(Kx, TDict(<<Item(Ky, TInt(1))>>))>>),
    TDict(<<Item(Ka, TList(<<TInt(1), TDict(<<Item(Ky, TInt(1))>>)>>)),
            Item(Kx, TDict(<<Item(Ky, TList(<<TDict(<<Item(Kz, TInt(1))>>)>>))>>))>>),
    TDict(<<Item(Ka, TList(<<TList(<<TDict(<<Item(Ky, TInt(1))>>)>>)>>))>>),
    TDict(<<Item(Ig(<<65>>), TDict(<<Item(Ky, TInt(1))>>))>>),
    TDict(<<Item(KSystem, TInt(1)), Item(Ig(Ksystem.s), TDict(<<Item(Kx, TInt(1))>>))>>) }

\* What the calls store: a scalar, a mapping, a list, a list holding a mapping.
TreeValues ==
  { TInt(7), TDict(<<Item(Kz, TInt(7))>>), TList(<<TInt(7)>>),
    TList(<<TDict(<<Item(Kz, TInt(7))>>)>>) }

\* The regular dictionaries passed to update and soft_update.
TreeOthers ==
  PlainOthers \cup { TDict(<<Item(Ka, TList(<<TDict(<<Item(Kz, TInt(7))>>)>>))>>) }

InitLoaded(l) ==
  /\ heap = l.h
  /\ pre = l.h
  /\ last = NoCall
  /\ env = [NoEnv EXCEPT !.M = l.r.n]

InitTree == \E m \in TreeSources : InitLoaded(Load(<<>>, m))

CallConstruct(r) ==
  Call(heap, r, [NoCall EXCEPT !.op = "construct", !.other = env.M],
       [env EXCEPT !.S = r.r.n])

\* S = Settings(M)
TreeConstruct ==
  /\ env.n < MaxTreeOps
  /\ env.S = 0
  /\ CallConstruct(__init__(heap, Ref(env.M)))

CallAsDict(r) ==
  Call(heap, r, [NoCall EXCEPT !.op = "as_dict", !.self = env.S],
       [env EXCEPT !.D = r.r.n])

\* D = S.as_dict()
TreeAsDict ==
  /\ env.n < MaxTreeOps
  /\ env.S # 0
  /\ env.D = 0
  /\ CallAsDict(as_dict(heap, env.S))

\* t[k] = v and t.k = v
CallTreeSet(attr, t, k, l) ==
  Call(l.h,
       IF attr THEN __setattr__(l.h, t, k.s, l.r) ELSE __setitem__(l.h, t, k, l.r),
       [NoCall EXCEPT !.op = IF attr THEN "setattr" ELSE "setitem",
                      !.self = t, !.key = k, !.val = l.r], env)

\* t[k] = v
TreeSet ==
  /\ env.n < MaxTreeOps
  /\ env.S # 0
  /\ \E t \in KeyNodes(heap, env.S), k \in {Ka, Kx}, lit \in TreeValues :
       CallTreeSet(FALSE, t, k, Load(heap, lit))

\* t.k = v
TreeSetAttr ==
  /\ env.n < MaxTreeOps
  /\ env.S # 0
  /\ \E t \in KeyNodes(heap, env.S), k \in {Ka, Kx}, lit \in TreeValues :
       CallTreeSet(TRUE, t, k, Load(heap, lit))

CallTreeSetNested(path, l) ==
  Call(l.h, set_nested(l.h, env.S, path, l.r),
       [NoCall EXCEPT !.op = "set_nested", !.self = env.S, !.path = path, !.val = l.r], env)

\* S.set_nested(path, v)
TreeSetNested ==
  /\ env.n < MaxTreeOps
  /\ env.S # 0
  /\ \E path \in {<<Ka>>, <<Kx, Ky>>, <<Kz, Ka>>}, lit \in TreeValues :
       CallTreeSetNested(path, Load(heap, lit))

CallTreeUpdate(soft, t, l) ==
  Call(l.h, UpdateLoop(soft, l.h, t, l.r.n, IterKeys(l.h, l.r.n), 1),
       [NoCall EXCEPT !.op = IF soft THEN "soft_update" ELSE "update",
                      !.self = t, !.other = l.r.n], env)

\* t.update(d) and t.soft_update(d), d a regular dictionary
TreeUpdate ==
  /\ env.n < MaxTreeOps
  /\ env.S # 0
  /\ \E t \in KeyNodes(heap, env.S), lit \in TreeOthers, soft \in BOOLEAN :
       CallTreeUpdate(soft, t, Load(heap, lit))

NextTree ==
  \/ TreeConstruct \/ TreeAsDict \/ TreeSet \/ TreeSetAttr \/ TreeSetNested \/ TreeUpdate

SpecTree == InitTree /\ [][NextTree]_vars

\* No value reachable from v, as a value of a key at any depth or as an
\* element of a list that is such a value, is a regular dictionary.
RECURSIVE NoRawMapping(_, _)
NoRawMapping(h, v) ==
  IF ~IsRef(v) THEN TRUE
  ELSE IF h[v.n].cls = "dict" THEN FALSE
  ELSE IF h[v.n].cls = "Settings"
  THEN \A j \in 1..Len(h[v.n].items) : NoRawMapping(h, h[v.n].items[j].v)
  ELSE \A j \in 1..Len(h[v.n].items) :
         IsDict(h, h[v.n].items[j].v) => NoRawMapping(h, h[v.n].items[j].v)

\* C5: no raw mapping in the tree.  After Settings(M) and any item or
\* attribute assignment, set_nested, update or soft_update (from a regular
\* dictionary too), every mapping reachable in the store, as a value at any
\* depth or as an element of a list value, is a Settings.
C5_NoRawMapping ==
  env.S # 0 => NoRawMapping(heap, Ref(env.S))

\* No Settings is left in the tree t, inside lists included.
RECURSIVE NoSettings(_)
NoSettings(t) ==
  /\ t.t # "Settings"
  /\ t.t \in {"dict", "list"} => \A j \in 1..Len(t.items) : NoSettings(t.items[j].v)

\* The store the last call was made on is as Settings(M) makes it.
AsConstructed ==
  Tree(pre, Ref(env.S)) =
    Tree(__init__(pre, Ref(env.M)).h, __init__(pre, Ref(env.M)).r)

\* C9: round trip.  For a regular dictionary M (scalars, lists and mappings
\* at any depth, ig strings among the keys), Settings(M).as_dict() is equal
\* to M, with the same keys and the same values at every depth, and holds no
\* Settings at any position, inside lists included.
C9_RoundTrip ==
  (last.op = "as_dict" /\ AsConstructed) =>
    /\ last.err = ""
    /\ PyEq(Tree(heap, last.ret), Tree(pre, Ref(env.M)))
    /\ NoSettings(Tree(heap, last.ret))

(***************************************************************************)
(* SpecAttr: one store, attribute access with dunder and other names       *)
(***************************************************************************)

MaxAttrOps == 2

\* 'a', '_h', '__a' and '__x__'
AttrNames == { <<97>>, <<95, 104>>, <<95, 95, 97>>, <<95, 95, 120, 95, 95>> }

\* {}, {a: 1}, {a: 1, __x__: 2}
AttrSources ==
  { TDict(<<>>), TDict(<<Item(Ka, TInt(1))>>),
    TDict(<<Item(Ka, TInt(1)), Item(Str(<<95, 95, 120, 95, 95>>), TInt(2))>>) }

InitAttr == \E m \in AttrSources : InitStore(Construct(<<>>, m))

\* s.name
GetAttr ==
  /\ env.n < MaxAttrOps
  /\ \E name \in AttrNames :
       Call(heap, __getattr__(heap, env.S, name),
            [NoCall EXCEPT !.op = "getattr", !.self = env.S, !.name = name], env)

\* s.name = 5
SetAttr ==
  /\ env.n < MaxAttrOps
  /\ \E name \in AttrNames :
       Call(heap, __setattr__(heap, env.S, name, Num(5)),
            [NoCall EXCEPT !.op = "setattr", !.self = env.S, !.name = name,
                           !.val = Num(5)], env)

\* del s.name
DelAttr ==
  /\ env.n < MaxAttrOps
  /\ \E name \in AttrNames :
       Call(heap, __delattr__(heap, env.S, name),
            [NoCall EXCEPT !.op = "delattr", !.self = env.S, !.name = name], env)

NextAttr == GetAttr \/ SetAttr \/ DelAttr

SpecAttr == InitAttr /\ [][NextAttr]_vars

\* What the last call returned or raised, and the heap it left.
Outcome == [h |-> heap, r |-> last.ret, err |-> last.err]

\* The last call did to the ordinary attribute of its name what object
\* attribute access does, and no more.
OrdinaryAttribute ==
  /\ last.op = "getattr" =>
       /\ heap = pre
       /\ IF DictHas(pre[last.self].attrs, Str(last.name))
          THEN last.err = "" /\ last.ret = DictGet(pre[last.self].attrs, Str(last.name))
          ELSE last.err = "AttributeError"
  /\ last.op = "setattr" =>
       /\ last.err = ""
       /\ heap = [pre EXCEPT ![last.self].attrs = DictSet(@, Str(last.name), last.val)]
  /\ last.op = "delattr" =>
       IF DictHas(pre[last.self].attrs, Str(last.name))
       THEN /\ last.err = ""
            /\ heap = [pre EXCEPT ![last.self].attrs = DictDel(@, Str(last.name))]
       ELSE last.err = "AttributeError" /\ heap = pre

\* The last call is the item call of its kind on the key of its name.
ItemCall ==
  /\ last.op = "getattr" => Outcome = __getitem__(pre, last.self, Str(last.name))
  /\ last.op = "setattr" => Outcome = __setitem__(pre, last.self, Str(last.name), last.val)
  /\ last.op = "delattr" => Outcome = __delitem__(pre, last.self, Str(last.name))

\* C10: dunder names bypass the store.  For a name that starts and ends with
\* a double underscore, attribute get, set and delete act on the ordinary
\* object attribute only and leave the keys and values of the store as they
\* were; for every other name they are item get, set and delete on that key.
C10_DunderBypass ==
  last.op \in {"getattr", "setattr", "delattr"} =>
    IF IsDunder(last.name)
    THEN heap[last.self].items = pre[last.self].items /\ OrdinaryAttribute
    ELSE ItemCall

====
